---- MODULE Spec2Model ----
(***************************************************************************)
(* Model of the comfyui-rusty-nodes image nodes.                           *)
(*                                                                         *)
(*   SpecResize : ResizeImage::execute (src/nodes/image_resizer.rs), the   *)
(*                parallel per-element fan-out of resize_parallel, the     *)
(*                reassembly of the batch and the construction of the      *)
(*                output tensors.                                          *)
(*   SpecCodec  : tensor_to_image / image_to_tensor (src/utilities.rs).    *)
(*                                                                         *)
(* A tensor is a record [shape, data]: data is the row-major flattened     *)
(* buffer.  A Result is [ok |-> TRUE, val |-> v] or [ok |-> FALSE,         *)
(* err |-> kind].  f32 values of the resize model are small integers       *)
(* (colour levels); the codec model uses fixed point, see Scale.           *)
(***************************************************************************)
EXTENDS Integers, Sequences, FiniteSets, TLC

VARIABLES
    input,      \* ResizeImage Input: width, height, image, mask, interpolation
    pc,         \* position of execute
    pending,    \* batch indices whose parallel task has not completed
    resized,    \* completed tasks in completion order: [index, items]
    mask,       \* the resized mask (None until built / when absent)
    output,     \* Result of execute (None until it returns)
    bitmap,     \* codec: the decoded bitmap handed to image_to_tensor
    tensorIn,   \* codec: the arguments handed to tensor_to_image
    encoded,    \* codec: Result of image_to_tensor
    decoded,    \* codec: Result of tensor_to_image
    b2iIn,      \* Base64ToImage Input: image (a string)
    b2iOut,     \* Base64ToImage: Result of the stripping and Result of execute
    i2bIn,      \* ImageToBase64 Input: image, format
    i2bHeaded,  \* ImageToBase64: Result of execute with include_header = true
    i2bRaw,     \* ImageToBase64: Result of execute with include_header = false
    jsonIn,     \* JsonPathExtractor Input: path, json
    jsonOut,    \* JsonPathExtractor: Result of execute
    mvIn,       \* MoveFile Input: file, move_to
    mvPc,       \* MoveFile: position of execute
    fs,         \* MoveFile: the file system, [dirs, files]
    mvOut       \* MoveFile: Result of execute

nodeVars == <<b2iIn, b2iOut, i2bIn, i2bHeaded, i2bRaw, jsonIn, jsonOut, mvIn, mvPc, fs, mvOut>>

vars == <<input, pc, pending, resized, mask, output, bitmap, tensorIn, encoded, decoded,
          nodeVars>>

resizeVars == <<input, pc, pending, resized, mask, output>>

codecVars == <<bitmap, tensorIn, encoded, decoded>>

\* ------------------------------------------------------------------ bounds
MaxBatch == 2
MaxDim == 2
MaxTarget == 2

None == [none |-> TRUE]

Ok(v) == [ok |-> TRUE, val |-> v]

Err(kind) == [ok |-> FALSE, err |-> kind]

\* ------------------------------------------------------------ tensors
RECURSIVE Product(_)
Product(s) == IF s = <<>> THEN 1 ELSE Head(s) * Product(Tail(s))

\* Tensor::from_vec as reached through Output::try_from: the buffer length
\* must equal the element count of the shape.
TensorFromVec(data, shape) ==
    IF Len(data) # Product(shape)
    THEN Err("ShapeError")
    ELSE Ok([shape |-> shape, data |-> data])

\* image.i(b) followed by flatten_all().to_vec1(): the b-th element's buffer.
\* A Result: indexing past the first dimension is an error.
TensorIndexFlat(t, b) ==
    IF b >= Head(t.shape)
    THEN Err("IndexError")
    ELSE LET n == Product(Tail(t.shape))
         IN Ok(SubSeq(t.data, b * n + 1, (b + 1) * n))

\* ------------------------------------------------------------ Interpolation
Interpolation ==
    {"lanczos3", "point", "triangle", "catrom", "mitchell", "bspline", "gaussian"}

\* impl From<Interpolation> for Type
ToType(value) ==
    CASE value = "lanczos3" -> "Lanczos3"
      [] value = "point" -> "Point"
      [] value = "triangle" -> "Triangle"
      [] value = "catrom" -> "Catrom"
      [] value = "mitchell" -> "Mitchell"
      [] value = "bspline" -> "BSpline"
      [] value = "gaussian" -> "Gaussian"

\* ------------------------------------------------------------ resize
\* Source coordinate whose centre is nearest to the centre of destination
\* coordinate x2 (0-based) when n1 samples are resampled to n2.
SrcCoord(x2, n1, n2) == ((2 * x2 + 1) * n1) \div (2 * n2)

\* resizer.resize(input_rgb, output_rgb): input_rgb is the source buffer seen
\* as groups of CHANNELS floats.  The resizer reads the first
\* w * h groups.  Every kernel is normalised, so on the single-colour elements
\* drawn by InitResize each output sample equals the source sample nearest to
\* it; kernel weights are not modelled beyond that.
Resample(input_rgb, CHANNELS, w, h, tw, th, type) ==
    [i \in 1..(tw * th * CHANNELS) |->
        LET pix == (i - 1) \div CHANNELS
            k == (i - 1) % CHANNELS
            x1 == SrcCoord(pix % tw, w, tw)
            y1 == SrcCoord(pix \div tw, h, th)
        IN input_rgb[(y1 * w + x1) * CHANNELS + k + 1]]

\* ResizeImage::resize.  resize::new rejects a zero source or target size;
\* Resizer::resize rejects a source slice of fewer than w * h pixels and a
\* destination slice that is not tw * th pixels.
Resize(data, CHANNELS, origin_width, origin_height, target_width, target_height, type) ==
    LET output_pixels_per_image == target_width * target_height * CHANNELS
        input_rgb_len == Len(data) \div CHANNELS
        output_rgb_len == output_pixels_per_image \div CHANNELS
    IN IF origin_width = 0 \/ origin_height = 0 \/ target_width = 0 \/ target_height = 0
       THEN Err("ResizeError")
       ELSE IF input_rgb_len < origin_width * origin_height
                 \/ output_rgb_len # target_width * target_height
            THEN Err("ResizeError")
            ELSE Ok(Resample(data, CHANNELS, origin_width, origin_height,
                             target_width, target_height, type))

\* Result as IntoParallelIterator: flat_map over a Result yields the Ok value
\* and nothing for an Err.
ResultItems(r) == IF r.ok THEN <<r.val>> ELSE <<>>

\* One per-element task of resize_parallel: index, flatten, resize; each
\* flat_map stage drops an Err.
ElementTask(tensor, b, CHANNELS, width, height, target_width, target_height, interpolation) ==
    LET element == TensorIndexFlat(tensor, b)
    IN IF ~element.ok
       THEN <<>>
       ELSE ResultItems(Resize(element.val, CHANNELS, width, height,
                               target_width, target_height, ToType(interpolation)))

\* The ordered reassembly of rayon's collect(): the items of the completed
\* tasks in batch-index order, whatever order the tasks completed in.
RECURSIVE ItemsOf(_, _)
ItemsOf(done, b) ==
    IF done = <<>> THEN <<>>
    ELSE IF Head(done).index = b THEN Head(done).items
         ELSE ItemsOf(Tail(done), b)

RECURSIVE CollectFrom(_, _, _)
CollectFrom(done, b, batch) ==
    IF b >= batch THEN <<>>
    ELSE ItemsOf(done, b) \o CollectFrom(done, b + 1, batch)

\* A plausible bug: results appended as the tasks complete.
RECURSIVE CollectByCompletion(_, _)
CollectByCompletion(done, batch) ==
    IF done = <<>> THEN <<>>
    ELSE Head(done).items \o CollectByCompletion(Tail(done), batch)

\* .collect() into Vec<Vec<f32>>
Collect(done, batch) == CollectFrom(done, 0, batch)

\* for chunk in resized_data { data.extend_from_slice(&chunk) }
RECURSIVE Flatten(_)
Flatten(chunks) ==
    IF chunks = <<>> THEN <<>> ELSE Head(chunks) \o Flatten(Tail(chunks))

\* The get_shape closures handed to resize_parallel by execute; the
\* parameters are named as in the closures.
ImageShape(batch, width, height, channels) == <<batch, height, width, channels>>

MaskShape(batch, width, height, channels) == <<batch, height, width>>

\* The tail of resize_parallel once every task has completed: concatenate
\* the chunks and build the output tensor with
\* get_shape(batch, target_height, target_width, CHANNELS).
ResizeParallelFinish(done, batch, CHANNELS, target_width, target_height, kind) ==
    LET data == Flatten(Collect(done, batch))
        shape == IF kind = "image"
                 THEN ImageShape(batch, target_height, target_width, CHANNELS)
                 ELSE MaskShape(batch, target_height, target_width, CHANNELS)
    IN TensorFromVec(data, shape)

\* ------------------------------------------------------------ inputs
ImageChannels == {2, 3, 4}

\* Element b of a generated tensor is a single-colour image of level b + 1.
ElementColour(b) == b + 1

RECURSIVE FlatData(_, _, _)
FlatData(b, batch, n) ==
    IF b >= batch THEN <<>>
    ELSE [i \in 1..n |-> ElementColour(b)] \o FlatData(b + 1, batch, n)

MakeTensor(shape) ==
    [shape |-> shape, data |-> FlatData(0, Head(shape), Product(Tail(shape)))]

Images ==
    {MakeTensor(<<b, h, w, c>>) :
        b \in 0..MaxBatch, h \in 1..MaxDim, w \in 1..MaxDim, c \in ImageChannels}

\* A mask has the spatial size of its image; its batch count is its own.
MasksFor(image) ==
    {None} \cup {MakeTensor(<<b, image.shape[2], image.shape[3]>>) : b \in 0..MaxBatch}

CodecIdle ==
    /\ bitmap = None
    /\ tensorIn = None
    /\ encoded = None
    /\ decoded = None

Base64Idle ==
    /\ b2iIn = None
    /\ b2iOut = None
    /\ i2bIn = None
    /\ i2bHeaded = None
    /\ i2bRaw = None

JsonIdle ==
    /\ jsonIn = None
    /\ jsonOut = None

MoveIdle ==
    /\ mvIn = None
    /\ mvPc = "idle"
    /\ fs = None
    /\ mvOut = None

InitResize ==
    /\ \E image \in Images, interpolation \in Interpolation,
          width \in 0..MaxTarget, height \in 0..MaxTarget :
          \E m \in MasksFor(image) :
             input = [width |-> width, height |-> height, image |-> image,
                      mask |-> m, interpolation |-> interpolation]
    /\ pc = "start"
    /\ pending = {}
    /\ resized = <<>>
    /\ mask = None
    /\ output = None
    /\ CodecIdle
    /\ Base64Idle
    /\ JsonIdle
    /\ MoveIdle

\* ------------------------------------------------------------ execute
\* if let Some(mask) = input.mask: dims3 and the fan-out over 0..batch.
MaskBegin ==
    /\ pc = "start"
    /\ input.mask # None
    /\ pending' = 0..(input.mask.shape[1] - 1)
    /\ resized' = <<>>
    /\ pc' = "mask_par"
    /\ UNCHANGED <<input, mask, output, codecVars, nodeVars>>

\* else None
MaskAbsent ==
    /\ pc = "start"
    /\ input.mask = None
    /\ mask' = None
    /\ pc' = "image"
    /\ UNCHANGED <<input, pending, resized, output, codecVars, nodeVars>>

\* One parallel task of the mask fan-out runs to completion.
MaskTask(b) ==
    /\ pc = "mask_par"
    /\ b \in pending
    /\ resized' = Append(resized,
          [index |-> b,
           items |-> ElementTask(input.mask, b, 1, input.mask.shape[3], input.mask.shape[2],
                                 input.width, input.height, input.interpolation)])
    /\ pending' = pending \ {b}
    /\ UNCHANGED <<input, pc, mask, output, codecVars, nodeVars>>

\* collect(), concatenation and Mask::try_from; `?` returns the error.
MaskFinish ==
    /\ pc = "mask_par"
    /\ pending = {}
    /\ LET r == ResizeParallelFinish(resized, input.mask.shape[1], 1,
                                     input.width, input.height, "mask")
       IN IF r.ok
          THEN /\ mask' = r.val
               /\ pc' = "image"
               /\ output' = output
          ELSE /\ mask' = mask
               /\ pc' = "done"
               /\ output' = Err(r.err)
    /\ UNCHANGED <<input, pending, resized, codecVars, nodeVars>>

\* input.image.dims4() and the fan-out of resize_parallel::<3, ...>.
ImageBegin ==
    /\ pc = "image"
    /\ pending' = 0..(input.image.shape[1] - 1)
    /\ resized' = <<>>
    /\ pc' = "image_par"
    /\ UNCHANGED <<input, mask, output, codecVars, nodeVars>>

\* One parallel task of the image fan-out runs to completion.
ImageTask(b) ==
    /\ pc = "image_par"
    /\ b \in pending
    /\ resized' = Append(resized,
          [index |-> b,
           items |-> ElementTask(input.image, b, 3, input.image.shape[3], input.image.shape[2],
                                 input.width, input.height, input.interpolation)])
    /\ pending' = pending \ {b}
    /\ UNCHANGED <<input, pc, mask, output, codecVars, nodeVars>>

\* collect(), concatenation, Image::try_from and Ok(Output { .. }).
ImageFinish ==
    /\ pc = "image_par"
    /\ pending = {}
    /\ LET r == ResizeParallelFinish(resized, input.image.shape[1], 3,
                                     input.width, input.height, "image")
       IN output' = IF r.ok
                    THEN Ok([image |-> r.val, mask |-> mask,
                             width |-> input.width, height |-> input.height])
                    ELSE Err(r.err)
    /\ pc' = "done"
    /\ UNCHANGED <<input, pending, resized, mask, codecVars, nodeVars>>

NextResize ==
    \/ MaskBegin
    \/ MaskAbsent
    \/ \E b \in 0..MaxBatch : MaskTask(b)
    \/ MaskFinish
    \/ ImageBegin
    \/ \E b \in 0..MaxBatch : ImageTask(b)
    \/ ImageFinish

SpecResize == InitResize /\ [][NextResize]_vars

\* ============================================================ codec
\* f32 values are fixed point: the integer n stands for n / Scale, on a grid
\* coarser than the f32 grid over [1/255, 1].
Scale == 2 ^ 20

\* a / b rounded to the nearest integer, halves away from zero (f32::round).
RoundDiv(a, b) ==
    IF a >= 0 THEN (2 * a + b) \div (2 * b) ELSE -((2 * (-a) + b) \div (2 * b))

\* f32::clamp(0.0, 1.0)
Clamp01(value) == IF value < 0 THEN 0 ELSE IF value > Scale THEN Scale ELSE value

\* `as u8`: a saturating float-to-integer cast.
AsU8(x) == IF x < 0 THEN 0 ELSE IF x > 255 THEN 255 ELSE x

\* A plausible bug: no clamp, and a cast that wraps modulo 256.
QuantizeWrapping(value) == RoundDiv(value * 255, Scale) % 256

\* |value| (value.clamp(0.0, 1.0) * 255.0).round() as u8
Quantize(value) == AsU8(RoundDiv(Clamp01(value) * 255, Scale))

\* A plausible bug: the 8-bit level converted to f32 without normalising.
ToF32Unnormalised(level) == level * Scale

\* The u8 -> f32 conversion of to_rgb32f / to_rgba32f: level / 255.
ToF32(level) == RoundDiv(level * Scale, 255)

\* image.color().channel_count() of the 8-bit colour types.
ChannelCount(color) ==
    CASE color = "L8" -> 1
      [] color = "La8" -> 2
      [] color = "Rgb8" -> 3
      [] color = "Rgba8" -> 4

\* ImageBuffer::from_raw(width, height, pixels): None when the container is
\* too small for width * height * channels subpixels; a larger one is kept.
FromRaw(width, height, channels, pixels) ==
    IF width * height * channels > Len(pixels)
    THEN None
    ELSE [width |-> width, height |-> height,
          color |-> IF channels = 3 THEN "Rgb8" ELSE "Rgba8",
          pixels |-> pixels]

\* tensor_to_image
TensorToImage(tensor, width, height, channels) ==
    LET buffer == tensor.data
    IN IF ~(channels = 3 \/ channels = 4)
       THEN Err("UnsupportedChannelsError")
       ELSE LET pixels == [i \in 1..Len(buffer) |-> Quantize(buffer[i])]
                image == FromRaw(width, height, channels, pixels)
            IN IF image = None THEN Err("ShapeError") ELSE Ok(image)

\* A plausible bug: the tensor built as (1, width, height, channels).
ImageToTensorTransposed(image) ==
    LET width == image.width
        height == image.height
        channels == ChannelCount(image.color)
    IN IF channels = 3 \/ channels = 4
       THEN TensorFromVec([i \in 1..Len(image.pixels) |-> ToF32(image.pixels[i])],
                          <<1, width, height, channels>>)
       ELSE Err("UnsupportedChannelsError")

\* image_to_tensor
ImageToTensor(image) ==
    LET width == image.width
        height == image.height
        channels == ChannelCount(image.color)
    IN IF channels = 3 \/ channels = 4
       THEN TensorFromVec([i \in 1..Len(image.pixels) |-> ToF32(image.pixels[i])],
                          <<1, height, width, channels>>)
       ELSE Err("UnsupportedChannelsError")

\* ------------------------------------------------------------ codec inputs
ColorTypes == {"L8", "La8", "Rgb8", "Rgba8"}

\* An 8-bit bitmap whose subpixels run through the levels from `base`.
MakeBitmap(width, height, color, base) ==
    [width |-> width, height |-> height, color |-> color,
     pixels |-> [i \in 1..(width * height * ChannelCount(color)) |->
                    (base + 37 * (i - 1)) % 256]]

Bitmaps ==
    {MakeBitmap(w, h, c, base) :
        w \in 1..MaxDim, h \in 1..MaxDim, c \in ColorTypes, base \in 0..255}

\* f32 samples: below 0, around 0, around a rounding boundary, inside, around
\* 1 and above 1.
FloatSamples ==
    <<-(Scale \div 2), -1, 0, 1, Scale \div 510, (Scale \div 510) + 1, Scale \div 2,
      Scale - 1, Scale, Scale + 1, Scale + (Scale \div 2)>>

MakeBuffer(n, offset) ==
    [i \in 1..n |-> FloatSamples[((offset + i - 1) % Len(FloatSamples)) + 1]]

\* Arguments of a direct tensor_to_image call: the buffer is one float
\* shorter than, exactly, or one float longer than width * height * channels.
TensorArgs ==
    {[tensor |-> [shape |-> <<w * h * c + d>>, data |-> MakeBuffer(w * h * c + d, o)],
      width |-> w, height |-> h, channels |-> c] :
        w \in 1..MaxDim, h \in 1..MaxDim, c \in 1..4, d \in {-1, 0, 1},
        o \in 0..(Len(FloatSamples) - 1)}

ResizeIdle ==
    /\ input = None
    /\ pc = "idle"
    /\ pending = {}
    /\ resized = <<>>
    /\ mask = None
    /\ output = None

InitCodec ==
    /\ ResizeIdle
    /\ Base64Idle
    /\ JsonIdle
    /\ MoveIdle
    /\ encoded = None
    /\ decoded = None
    /\ \/ bitmap \in Bitmaps /\ tensorIn = None
       \/ bitmap = None /\ tensorIn \in TensorArgs

\* image_to_tensor(bitmap)
Encode ==
    /\ bitmap # None
    /\ encoded = None
    /\ encoded' = ImageToTensor(bitmap)
    /\ UNCHANGED <<bitmap, tensorIn, decoded, resizeVars, nodeVars>>

\* tensor_to_image on the encoded tensor with the bitmap's own dimensions.
DecodeEncoded ==
    /\ encoded # None
    /\ encoded.ok
    /\ decoded = None
    /\ decoded' = TensorToImage(encoded.val, bitmap.width, bitmap.height,
                                ChannelCount(bitmap.color))
    /\ UNCHANGED <<bitmap, tensorIn, encoded, resizeVars, nodeVars>>

\* tensor_to_image(tensor, width, height, channels)
DecodeTensor ==
    /\ tensorIn # None
    /\ decoded = None
    /\ decoded' = TensorToImage(tensorIn.tensor, tensorIn.width, tensorIn.height,
                                tensorIn.channels)
    /\ UNCHANGED <<bitmap, tensorIn, encoded, resizeVars, nodeVars>>

NextCodec ==
    \/ Encode
    \/ DecodeEncoded
    \/ DecodeTensor

SpecCodec == InitCodec /\ [][NextCodec]_vars

\* ============================================================ base64 nodes
\* A string is a sequence of one-character strings.
MaxStrLen == 4

\* The STANDARD alphabet of the base64 crate.
B64Alphabet ==
    <<"A", "B", "C", "D", "E", "F", "G", "H", "I", "J", "K", "L", "M", "N", "O", "P",
      "Q", "R", "S", "T", "U", "V", "W", "X", "Y", "Z", "a", "b", "c", "d", "e", "f",
      "g", "h", "i", "j", "k", "l", "m", "n", "o", "p", "q", "r", "s", "t", "u", "v",
      "w", "x", "y", "z", "0", "1", "2", "3", "4", "5", "6", "7", "8", "9", "+", "/">>

B64Char(v) == B64Alphabet[v + 1]

IsB64Char(c) == \E i \in 1..64 : B64Alphabet[i] = c

B64Value(c) == CHOOSE v \in 0..63 : B64Alphabet[v + 1] = c

\* STANDARD.encode(&bytes): three bytes to four characters, '=' padding.
RECURSIVE Base64Encode(_)
Base64Encode(bytes) ==
    IF bytes = <<>> THEN <<>>
    ELSE IF Len(bytes) = 1
    THEN <<B64Char(bytes[1] \div 4), B64Char((bytes[1] % 4) * 16), "=", "=">>
    ELSE IF Len(bytes) = 2
    THEN <<B64Char(bytes[1] \div 4),
           B64Char((bytes[1] % 4) * 16 + bytes[2] \div 16),
           B64Char((bytes[2] % 16) * 4), "=">>
    ELSE <<B64Char(bytes[1] \div 4),
           B64Char((bytes[1] % 4) * 16 + bytes[2] \div 16),
           B64Char((bytes[2] % 16) * 4 + bytes[3] \div 64),
           B64Char(bytes[3] % 64)>>
         \o Base64Encode(SubSeq(bytes, 4, Len(bytes)))

\* One group of four characters of a STANDARD decode; padding is accepted in
\* the last group only and the bits it discards must be zero.
DecodeGroup(g, last) ==
    IF \A i \in 1..4 : IsB64Char(g[i])
    THEN LET a == B64Value(g[1])
             b == B64Value(g[2])
             c == B64Value(g[3])
             d == B64Value(g[4])
         IN Ok(<<a * 4 + b \div 16, (b % 16) * 16 + c \div 4, (c % 4) * 64 + d>>)
    ELSE IF last /\ g[4] = "=" /\ \A i \in 1..3 : IsB64Char(g[i])
    THEN LET a == B64Value(g[1])
             b == B64Value(g[2])
             c == B64Value(g[3])
         IN IF c % 4 = 0
            THEN Ok(<<a * 4 + b \div 16, (b % 16) * 16 + c \div 4>>)
            ELSE Err("Base64Error")
    ELSE IF last /\ g[4] = "=" /\ g[3] = "=" /\ IsB64Char(g[1]) /\ IsB64Char(g[2])
    THEN LET a == B64Value(g[1])
             b == B64Value(g[2])
         IN IF b % 16 = 0 THEN Ok(<<a * 4 + b \div 16>>) ELSE Err("Base64Error")
    ELSE Err("Base64Error")

\* STANDARD.decode(data): canonical padding is required.
RECURSIVE Base64Decode(_)
Base64Decode(text) ==
    IF text = <<>> THEN Ok(<<>>)
    ELSE IF Len(text) < 4 THEN Err("Base64Error")
    ELSE LET head == DecodeGroup(SubSeq(text, 1, 4), Len(text) = 4)
             rest == Base64Decode(SubSeq(text, 5, Len(text)))
         IN IF ~head.ok THEN head
            ELSE IF ~rest.ok THEN rest
            ELSE Ok(head.val \o rest.val)

\* ------------------------------------------------------------ image files
\* enum Format and impl From<Format> for ImageFormat
Formats == {"webp", "png", "jpeg", "gif"}

\* format.to_mime_type()
MimeType(format) ==
    CASE format = "png" -> <<"i", "m", "a", "g", "e", "/", "p", "n", "g">>
      [] format = "webp" -> <<"i", "m", "a", "g", "e", "/", "w", "e", "b", "p">>
      [] format = "jpeg" -> <<"i", "m", "a", "g", "e", "/", "j", "p", "e", "g">>
      [] format = "gif" -> <<"i", "m", "a", "g", "e", "/", "g", "i", "f">>

\* The first byte of an encoded file identifies its format.
Magic(format) ==
    CASE format = "png" -> 137
      [] format = "webp" -> 82
      [] format = "jpeg" -> 255
      [] format = "gif" -> 71

\* The subpixels an encoder stores: gif stores RGBA (an opaque alpha is
\* added to RGB), the others store the bitmap's subpixels.
RECURSIVE WithAlpha(_)
WithAlpha(pixels) ==
    IF Len(pixels) < 3 THEN <<>>
    ELSE <<pixels[1], pixels[2], pixels[3], 255>> \o WithAlpha(SubSeq(pixels, 4, Len(pixels)))

\* image.write_to(&mut buffer, format): the file is its format's magic byte,
\* width, height, channel count and the stored subpixels; the pixel area is
\* the first width * height * channels subpixels of the buffer.  The jpeg
\* encoder rejects an alpha channel.  Compression is not modelled.
WriteTo(image, format) ==
    LET channels == ChannelCount(image.color)
        area == SubSeq(image.pixels, 1, image.width * image.height * channels)
    IN IF format = "jpeg" /\ channels = 4
       THEN Err("EncodeError")
       ELSE IF format = "gif" /\ channels = 3
       THEN Ok(<<Magic(format), image.width, image.height, 4>> \o WithAlpha(area))
       ELSE Ok(<<Magic(format), image.width, image.height, channels>> \o area)

\* image::load_from_memory(&image_bytes): the format is guessed from the
\* magic byte; a truncated or unknown file is a decode error.
LoadFromMemory(bytes) ==
    IF Len(bytes) < 4 \/ ~(\E f \in Formats : Magic(f) = bytes[1])
    THEN Err("DecodeError")
    ELSE IF bytes[4] \notin {3, 4} \/ Len(bytes) # 4 + bytes[2] * bytes[3] * bytes[4]
    THEN Err("DecodeError")
    ELSE Ok([width |-> bytes[2], height |-> bytes[3],
             color |-> IF bytes[4] = 3 THEN "Rgb8" ELSE "Rgba8",
             pixels |-> SubSeq(bytes, 5, Len(bytes))])

\* ------------------------------------------------------------ ImageToBase64
\* A plausible bug: the header of the tooltip, 'data:;base64;', which ends in
\* a semicolon.
WithHeaderSemicolon(mime, payload) ==
    <<"d", "a", "t", "a", ":">> \o mime
        \o <<";", "b", "a", "s", "e", "6", "4", ";">> \o payload

\* format!("data:{};base64,{}", format.to_mime_type(), encoded)
WithHeader(mime, payload) ==
    <<"d", "a", "t", "a", ":">> \o mime
        \o <<";", "b", "a", "s", "e", "6", "4", ",">> \o payload

\* ImageToBase64::execute
ImageToBase64Execute(image, include_header, format) ==
    LET shape == image.shape
        height == shape[2]
        width == shape[3]
        channels == shape[4]
        first == TensorIndexFlat(image, 0)
    IN IF ~first.ok THEN first
       ELSE LET bitmapR == TensorToImage([shape |-> Tail(shape), data |-> first.val],
                                         width, height, channels)
            IN IF ~bitmapR.ok THEN bitmapR
               ELSE LET bytes == WriteTo(bitmapR.val, format)
                    IN IF ~bytes.ok THEN bytes
                       ELSE LET encodedText == Base64Encode(bytes.val)
                            IN Ok(IF include_header
                                  THEN WithHeader(MimeType(format), encodedText)
                                  ELSE encodedText)

\* ------------------------------------------------------------ Base64ToImage
\* data.find(','): the 1-based position of the first comma, 0 when absent.
RECURSIVE FindComma(_, _)
FindComma(data, from) ==
    IF from > Len(data) THEN 0
    ELSE IF data[from] = "," THEN from
    ELSE FindComma(data, from + 1)

\* A plausible bug: the position of the last comma (rfind).
RECURSIVE FindLastComma(_, _)
FindLastComma(data, from) ==
    IF from > Len(data) THEN 0
    ELSE LET later == FindLastComma(data, from + 1)
         IN IF later # 0 THEN later
            ELSE IF data[from] = "," THEN from ELSE 0

StripAtLastComma(data) ==
    LET comma == FindLastComma(data, 1)
    IN IF comma # 0 THEN Ok(SubSeq(data, comma + 1, Len(data))) ELSE Ok(data)

\* strip_data_url_prefix
StripDataUrlPrefix(data) ==
    LET comma == FindComma(data, 1)
    IN IF comma # 0 THEN Ok(SubSeq(data, comma + 1, Len(data))) ELSE Ok(data)

\* Base64ToImage::execute; `stripped` records the Result of
\* strip_data_url_prefix, whose value is the text handed to the decoder.
Base64ToImageExecute(in) ==
    LET stripped == StripDataUrlPrefix(in.image)
    IN [stripped |-> stripped,
        result |->
            IF ~stripped.ok THEN Err("InvalidData")
            ELSE LET image_bytes == Base64Decode(stripped.val)
                 IN IF ~image_bytes.ok THEN Err("Base64Error")
                    ELSE LET loaded == LoadFromMemory(image_bytes.val)
                         IN IF ~loaded.ok THEN loaded
                            ELSE ImageToTensor(loaded.val)]

\* ------------------------------------------------------------ base64 inputs
\* Images handed to ImageToBase64: any batch count, the f32 samples of
\* FloatSamples as contents.
I2BImages ==
    {[shape |-> <<b, h, w, c>>, data |-> MakeBuffer(b * h * w * c, o)] :
        b \in 0..MaxBatch, h \in 1..MaxDim, w \in 1..MaxDim, c \in 1..4,
        o \in 0..(Len(FloatSamples) - 1)}

\* Characters of the short strings handed to Base64ToImage: the comma, two
\* alphabet characters, the padding character and a character outside the
\* alphabet.
InputChars == {",", "A", "Q", "=", ":"}

ShortStrings == UNION {[1..n -> InputChars] : n \in 0..MaxStrLen}

\* Strings built around real payloads: the output of ImageToBase64 for a
\* 1x1 image, bare, with its header, and with text and commas in front.
PayloadStrings ==
    LET image == [shape |-> <<1, 1, 1, 3>>, data |-> MakeBuffer(3, 6)]
        outs == {ImageToBase64Execute(image, h, f).val : h \in BOOLEAN, f \in Formats}
    IN outs \cup {<<",">> \o o : o \in outs} \cup {<<"A", ",", ",">> \o o : o \in outs}

NodesIdleButBase64 ==
    /\ ResizeIdle
    /\ CodecIdle
    /\ JsonIdle
    /\ MoveIdle

InitBase64ToImage ==
    /\ NodesIdleButBase64
    /\ \E str \in ShortStrings \cup PayloadStrings : b2iIn = [image |-> str]
    /\ b2iOut = None
    /\ i2bIn = None
    /\ i2bHeaded = None
    /\ i2bRaw = None

\* Base64ToImage::execute on Input::image.
Base64ToImageRun ==
    /\ b2iIn # None
    /\ b2iOut = None
    /\ b2iOut' = Base64ToImageExecute(b2iIn)
    /\ UNCHANGED <<b2iIn, i2bIn, i2bHeaded, i2bRaw, jsonIn, jsonOut, mvIn, mvPc, fs, mvOut,
                   resizeVars, codecVars>>

NextBase64ToImage == Base64ToImageRun

SpecBase64ToImage == InitBase64ToImage /\ [][NextBase64ToImage]_vars

InitImageToBase64 ==
    /\ NodesIdleButBase64
    /\ \E image \in I2BImages, format \in Formats :
          i2bIn = [image |-> image, format |-> format]
    /\ i2bHeaded = None
    /\ i2bRaw = None
    /\ b2iIn = None
    /\ b2iOut = None

\* ImageToBase64::execute with include_header = true.
ImageToBase64Headed ==
    /\ i2bIn # None
    /\ i2bHeaded = None
    /\ i2bHeaded' = ImageToBase64Execute(i2bIn.image, TRUE, i2bIn.format)
    /\ UNCHANGED <<b2iIn, b2iOut, i2bIn, i2bRaw, jsonIn, jsonOut, mvIn, mvPc, fs, mvOut,
                   resizeVars, codecVars>>

\* ImageToBase64::execute with include_header = false, on the same input.
ImageToBase64Raw ==
    /\ i2bIn # None
    /\ i2bRaw = None
    /\ i2bRaw' = ImageToBase64Execute(i2bIn.image, FALSE, i2bIn.format)
    /\ UNCHANGED <<b2iIn, b2iOut, i2bIn, i2bHeaded, jsonIn, jsonOut, mvIn, mvPc, fs, mvOut,
                   resizeVars, codecVars>>

\* The headed output is wired to the input of a Base64ToImage node.
FeedBase64ToImage ==
    /\ i2bHeaded # None
    /\ i2bHeaded.ok
    /\ b2iIn = None
    /\ b2iIn' = [image |-> i2bHeaded.val]
    /\ UNCHANGED <<b2iOut, i2bIn, i2bHeaded, i2bRaw, jsonIn, jsonOut, mvIn, mvPc, fs, mvOut,
                   resizeVars, codecVars>>

NextImageToBase64 ==
    \/ ImageToBase64Headed
    \/ ImageToBase64Raw
    \/ FeedBase64ToImage
    \/ Base64ToImageRun

SpecImageToBase64 == InitImageToBase64 /\ [][NextImageToBase64]_vars

\* ============================================================ JsonPathExtractor
\* JSON texts and pointers are strings (sequences of characters).  A
\* serde_json Value is [t |-> "null"], [t |-> "bool", b], [t |-> "num", n],
\* [t |-> "str", s], [t |-> "arr", items |-> <<values>>] or [t |-> "obj",
\* members |-> <<[k, v], ...>>] with the members sorted by key (Map is a BTreeMap).
\* The texts of the model use no escapes, signs, fractions or exponents.
MaxPtrLen == 3

Some(v) == [some |-> v]

Digits == <<"0", "1", "2", "3", "4", "5", "6", "7", "8", "9">>

IsDigit(c) == \E i \in 1..10 : Digits[i] = c

DigitValue(c) == CHOOSE d \in 0..9 : Digits[d + 1] = c

\* The byte of a character, for the ordering of object keys.
CharCode(c) ==
    CASE c = " " -> 32
      [] c = "/" -> 47
      [] IsDigit(c) -> 48 + DigitValue(c)
      [] c = "a" -> 97
      [] c = "b" -> 98
      [] c = "x" -> 120
      [] c = "~" -> 126
      [] OTHER -> 127

RECURSIVE KeyLess(_, _)
KeyLess(a, b) ==
    IF b = <<>> THEN FALSE
    ELSE IF a = <<>> THEN TRUE
    ELSE IF Head(a) = Head(b) THEN KeyLess(Tail(a), Tail(b))
    ELSE CharCode(Head(a)) < CharCode(Head(b))

\* Map::insert: replaces the value of an existing key, keeps the keys sorted.
RECURSIVE MapInsert(_, _, _)
MapInsert(map, key, value) ==
    IF map = <<>> THEN <<[k |-> key, v |-> value]>>
    ELSE IF Head(map).k = key THEN <<[k |-> key, v |-> value]>> \o Tail(map)
    ELSE IF KeyLess(key, Head(map).k) THEN <<[k |-> key, v |-> value]>> \o map
    ELSE <<Head(map)>> \o MapInsert(Tail(map), key, value)

\* Map::get
RECURSIVE MapGet(_, _)
MapGet(map, key) ==
    IF map = <<>> THEN None
    ELSE IF Head(map).k = key THEN Some(Head(map).v)
    ELSE MapGet(Tail(map), key)

StartsWith(text, lit) == Len(text) >= Len(lit) /\ SubSeq(text, 1, Len(lit)) = lit

Drop(text, n) == SubSeq(text, n + 1, Len(text))

RECURSIVE SkipWs(_)
SkipWs(text) == IF text # <<>> /\ Head(text) = " " THEN SkipWs(Tail(text)) ELSE text

Parsed(value, rest) == [ok |-> TRUE, val |-> value, rest |-> rest]

\* The decimal digits at the front of `text`, accumulated into acc.
RECURSIVE ParseDigits(_, _)
ParseDigits(text, acc) ==
    IF text # <<>> /\ IsDigit(Head(text))
    THEN ParseDigits(Tail(text), acc * 10 + DigitValue(Head(text)))
    ELSE Parsed([t |-> "num", n |-> acc], text)

\* A number: a leading zero may not be followed by a digit.
ParseNumber(text) ==
    IF Head(text) = "0" /\ Len(text) >= 2 /\ IsDigit(text[2])
    THEN Err("JsonError")
    ELSE ParseDigits(text, 0)

\* The characters up to the closing quote (text starts after the opening one).
RECURSIVE ParseString(_, _)
ParseString(text, acc) ==
    IF text = <<>> THEN Err("JsonError")
    ELSE IF Head(text) = "\"" THEN Parsed(acc, Tail(text))
    ELSE ParseString(Tail(text), Append(acc, Head(text)))

RECURSIVE ParseValue(_)
RECURSIVE ParseElements(_, _)
RECURSIVE ParseMembers(_, _)

\* The elements of an array after '[' or ',': value, then ',' or ']'.
ParseElements(text, acc) ==
    LET item == ParseValue(text)
    IN IF ~item.ok THEN item
       ELSE LET rest == SkipWs(item.rest)
                items == Append(acc, item.val)
            IN IF rest = <<>> THEN Err("JsonError")
               ELSE IF Head(rest) = "]" THEN Parsed([t |-> "arr", items |-> items], Tail(rest))
               ELSE IF Head(rest) = "," THEN ParseElements(Tail(rest), items)
               ELSE Err("JsonError")

\* The members of an object after '{' or ',': "key" : value, then ',' or '}'.
ParseMembers(text, acc) ==
    LET start == SkipWs(text)
    IN IF start = <<>> \/ Head(start) # "\"" THEN Err("JsonError")
       ELSE LET key == ParseString(Tail(start), <<>>)
            IN IF ~key.ok THEN key
               ELSE LET colon == SkipWs(key.rest)
                    IN IF colon = <<>> \/ Head(colon) # ":" THEN Err("JsonError")
                       ELSE LET item == ParseValue(Tail(colon))
                            IN IF ~item.ok THEN item
                               ELSE LET rest == SkipWs(item.rest)
                                        map == MapInsert(acc, key.val, item.val)
                                    IN IF rest = <<>> THEN Err("JsonError")
                                       ELSE IF Head(rest) = "}"
                                       THEN Parsed([t |-> "obj", members |-> map], Tail(rest))
                                       ELSE IF Head(rest) = ","
                                       THEN ParseMembers(Tail(rest), map)
                                       ELSE Err("JsonError")

ParseValue(text) ==
    LET start == SkipWs(text)
    IN IF start = <<>> THEN Err("JsonError")
       ELSE IF StartsWith(start, <<"n", "u", "l", "l">>)
       THEN Parsed([t |-> "null"], Drop(start, 4))
       ELSE IF StartsWith(start, <<"t", "r", "u", "e">>)
       THEN Parsed([t |-> "bool", b |-> TRUE], Drop(start, 4))
       ELSE IF StartsWith(start, <<"f", "a", "l", "s", "e">>)
       THEN Parsed([t |-> "bool", b |-> FALSE], Drop(start, 5))
       ELSE IF IsDigit(Head(start)) THEN ParseNumber(start)
       ELSE IF Head(start) = "\""
       THEN LET str == ParseString(Tail(start), <<>>)
            IN IF ~str.ok THEN str ELSE Parsed([t |-> "str", s |-> str.val], str.rest)
       ELSE IF Head(start) = "["
       THEN LET inner == SkipWs(Tail(start))
            IN IF inner # <<>> /\ Head(inner) = "]"
               THEN Parsed([t |-> "arr", items |-> <<>>], Tail(inner))
               ELSE ParseElements(inner, <<>>)
       ELSE IF Head(start) = "{"
       THEN LET inner == SkipWs(Tail(start))
            IN IF inner # <<>> /\ Head(inner) = "}"
               THEN Parsed([t |-> "obj", members |-> <<>>], Tail(inner))
               ELSE ParseMembers(inner, <<>>)
       ELSE Err("JsonError")

\* serde_json::from_str::<Value>: one value, then only whitespace.
FromStr(text) ==
    LET r == ParseValue(text)
    IN IF ~r.ok THEN Err("JsonError")
       ELSE IF SkipWs(r.rest) # <<>> THEN Err("JsonError")
       ELSE Ok(r.val)

\* The decimal digits of a natural number.
RECURSIVE NatToString(_)
NatToString(n) ==
    IF n < 10 THEN <<Digits[n + 1]>> ELSE NatToString(n \div 10) \o <<Digits[(n % 10) + 1]>>

\* value.to_string(): the compact serialization.
RECURSIVE ToJsonString(_)
RECURSIVE JoinElements(_)
RECURSIVE JoinMembers(_)

JoinElements(items) ==
    IF items = <<>> THEN <<>>
    ELSE IF Len(items) = 1 THEN ToJsonString(items[1])
    ELSE ToJsonString(items[1]) \o <<",">> \o JoinElements(Tail(items))

JoinMembers(map) ==
    IF map = <<>> THEN <<>>
    ELSE LET member == <<"\"">> \o map[1].k \o <<"\"", ":">> \o ToJsonString(map[1].v)
         IN IF Len(map) = 1 THEN member ELSE member \o <<",">> \o JoinMembers(Tail(map))

ToJsonString(value) ==
    CASE value.t = "null" -> <<"n", "u", "l", "l">>
      [] value.t = "bool" ->
            IF value.b THEN <<"t", "r", "u", "e">> ELSE <<"f", "a", "l", "s", "e">>
      [] value.t = "num" -> NatToString(value.n)
      [] value.t = "str" -> <<"\"">> \o value.s \o <<"\"">>
      [] value.t = "arr" -> <<"[">> \o JoinElements(value.items) \o <<"]">>
      [] value.t = "obj" -> <<"{">> \o JoinMembers(value.members) \o <<"}">>

\* pointer.split('/'): the pieces between the slashes.
RECURSIVE Split(_, _)
Split(text, piece) ==
    IF text = <<>> THEN <<piece>>
    ELSE IF Head(text) = "/" THEN <<piece>> \o Split(Tail(text), <<>>)
    ELSE Split(Tail(text), Append(piece, Head(text)))

\* str::replace(from, to) for a two-character `from` and a one-character `to`.
RECURSIVE Replace(_, _, _)
Replace(text, from, to) ==
    IF Len(text) < 2 THEN text
    ELSE IF SubSeq(text, 1, 2) = from THEN <<to>> \o Replace(Drop(text, 2), from, to)
    ELSE <<Head(text)>> \o Replace(Tail(text), from, to)

\* x.replace("~1", "/").replace("~0", "~")
Unescape(token) == Replace(Replace(token, <<"~", "1">>, "/"), <<"~", "0">>, "~")

RECURSIVE DigitsToNat(_, _)
DigitsToNat(text, acc) ==
    IF text = <<>> THEN acc ELSE DigitsToNat(Tail(text), acc * 10 + DigitValue(Head(text)))

\* parse_index: no '+', no leading zero, decimal digits only.
ParseIndex(token) ==
    IF token = <<>> \/ \E i \in 1..Len(token) : ~IsDigit(token[i]) THEN None
    ELSE IF Head(token) = "0" /\ Len(token) # 1 THEN None
    ELSE Some(DigitsToNat(token, 0))

\* The try_fold of Value::pointer over the unescaped tokens.
RECURSIVE Walk(_, _)
Walk(target, tokens) ==
    IF tokens = <<>> THEN Some(target)
    ELSE LET token == Unescape(Head(tokens))
             next == IF target.t = "obj" THEN MapGet(target.members, token)
                     ELSE IF target.t = "arr"
                     THEN LET index == ParseIndex(token)
                          IN IF index = None \/ index.some >= Len(target.items) THEN None
                             ELSE Some(target.items[index.some + 1])
                     ELSE None
         IN IF next = None THEN None ELSE Walk(next.some, Tail(tokens))

\* Value::pointer
Pointer(value, pointer) ==
    IF pointer = <<>> THEN Some(value)
    ELSE IF Head(pointer) # "/" THEN None
    ELSE Walk(value, Tail(Split(pointer, <<>>)))

\* A plausible bug: no arm for Value::Null, so null is serialized.
ExtractNullSerialized(found) ==
    IF found = None THEN None
    ELSE IF found.some.t = "str" THEN Some(found.some.s)
    ELSE Some(ToJsonString(found.some))

\* .and_then(|value| match value { Null => None, String(s) => Some(s.clone()),
\*                                 _ => Some(value.to_string()) })
Extract(found) ==
    IF found = None THEN None
    ELSE IF found.some.t = "null" THEN None
    ELSE IF found.some.t = "str" THEN Some(found.some.s)
    ELSE Some(ToJsonString(found.some))

\* JsonPathExtractor::execute
JsonPathExtractorExecute(in) ==
    LET document == FromStr(in.json)
    IN IF ~document.ok THEN document
       ELSE LET extracted == Extract(Pointer(document.val, in.path))
            IN Ok([string |-> IF extracted = None THEN <<>> ELSE extracted.some])

\* ------------------------------------------------------------ JSON inputs
VNull == [t |-> "null"]

VNum(n) == [t |-> "num", n |-> n]

VStr(str) == [t |-> "str", s |-> str]

VArr(items) == [t |-> "arr", items |-> items]

RECURSIVE InsertAll(_, _)
InsertAll(map, members) ==
    IF members = <<>> THEN map
    ELSE InsertAll(MapInsert(map, members[1][1], members[1][2]), Tail(members))

VObj(members) == [t |-> "obj", members |-> InsertAll(<<>>, members)]

SampleValues ==
    {VNull,
     [t |-> "bool", b |-> TRUE],
     VNum(7),
     VStr(<<"a">>),
     VStr(<<>>),
     VArr(<<VNull, VStr(<<"b">>), VNum(10)>>),
     VObj(<< <<<<"a">>, VNull>>,
             <<<<"b">>, VObj(<< <<<<"1">>, VArr(<<[t |-> "bool", b |-> FALSE], VNull>>)>>,
                                <<<<"0">>, VStr(<<"x">>)>> >>)>> >>),
     VObj(<< <<<<"~">>, VNum(1)>>,
             <<<<"/">>, VStr(<<"a">>)>>,
             <<<<"a", "/", "b">>, VStr(<<>>)>>,
             <<<<"~", "1">>, VNum(0)>> >>),
     VObj(<< <<<<>>, VStr(<<"x">>)>>,
             <<<<"a">>, VArr(<<VStr(<<"x">>), VObj(<< <<<<"a">>, VNull>> >>)>>)>>,
             <<<<"0">>, VNum(7)>> >>)}

\* Valid texts that are not compact serializations: surrounding whitespace,
\* and an object with unsorted and repeated keys
\* ( {"b":1, "a":null,"b":"x"} ).
LooseTexts ==
    {<<" ">> \o ToJsonString(v) \o <<" ">> : v \in SampleValues}
        \cup {<<"{", "\"", "b", "\"", ":", "1", ",", " ", "\"", "a", "\"", ":",
                "n", "u", "l", "l", ",", "\"", "b", "\"", ":", "\"", "x", "\"", "}">>}

\* Texts that are not JSON.
InvalidTexts ==
    {<<>>, <<"{">>, <<"[", "1", ",", "]">>, <<"n", "u", "l">>, <<"0", "1">>,
     <<"\"", "a">>, <<"1", " ", "1">>, <<"{", "\"", "a", "\"", "}">>, <<"x">>}

Documents == {ToJsonString(v) : v \in SampleValues} \cup LooseTexts \cup InvalidTexts

PointerChars == {"/", "a", "b", "0", "1", "~"}

\* Every short pointer string, and longer ones that reach nested values.
Pointers ==
    UNION {[1..n -> PointerChars] : n \in 0..MaxPtrLen}
        \cup {<<"/", "b", "/", "1", "/", "1">>, <<"/", "b", "/", "1", "/", "0">>,
              <<"/", "b", "/", "1", "/", "0", "1">>, <<"/", "a", "/", "1", "/", "a">>,
              <<"/", "a", "~", "1", "b">>, <<"/", "~", "0", "1">>, <<"/", "a", "/", "+", "1">>}

InitJson ==
    /\ ResizeIdle
    /\ CodecIdle
    /\ Base64Idle
    /\ MoveIdle
    /\ \E path \in Pointers, json \in Documents : jsonIn = [path |-> path, json |-> json]
    /\ jsonOut = None

\* JsonPathExtractor::execute on the input.
JsonRun ==
    /\ jsonIn # None
    /\ jsonOut = None
    /\ jsonOut' = JsonPathExtractorExecute(jsonIn)
    /\ UNCHANGED <<b2iIn, b2iOut, i2bIn, i2bHeaded, i2bRaw, jsonIn, mvIn, mvPc, fs, mvOut,
                   resizeVars, codecVars>>

NextJson == JsonRun

SpecJson == InitJson /\ [][NextJson]_vars

\* ============================================================ MoveFile
\* A path is the sequence of its components: names and "..".  Paths are read
\* from the working directory, which is the root <<>> of the file system;
\* ".." at the root stays at the root.  A file system is [dirs, files], two
\* sets of resolved paths; the root is always a directory.
MaxPathLen == 2

Names == {"a", "b"}

Components == Names \cup {".."}

Front(path) == SubSeq(path, 1, Len(path) - 1)

Last(path) == path[Len(path)]

IsPrefix(a, b) == Len(a) <= Len(b) /\ SubSeq(b, 1, Len(a)) = a

KindOf(files, at) ==
    IF at \in files.dirs THEN "dir" ELSE IF at \in files.files THEN "file" ELSE "none"

\* Path resolution by the kernel: every component but the last must lead to
\* a directory; the last one names an entry that may be missing.
RECURSIVE Lookup(_, _, _)
Lookup(files, cur, path) ==
    IF path = <<>> THEN [ok |-> TRUE, path |-> cur, kind |-> "dir"]
    ELSE LET c == Head(path)
             at == IF c = ".." THEN (IF cur = <<>> THEN cur ELSE Front(cur)) ELSE Append(cur, c)
             kind == KindOf(files, at)
         IN IF Len(path) = 1 THEN [ok |-> TRUE, path |-> at, kind |-> kind]
            ELSE IF kind = "dir" THEN Lookup(files, at, Tail(path))
            ELSE IF kind = "file" THEN Err("NotADirectory")
            ELSE Err("NotFound")

\* Path::is_dir (the empty path does not name anything).
IsDir(files, path) ==
    /\ path # <<>>
    /\ LET found == Lookup(files, <<>>, path) IN found.ok /\ found.kind = "dir"

\* mkdir(2)
Mkdir(files, path) ==
    IF path = <<>> THEN Err("NotFound")
    ELSE LET found == Lookup(files, <<>>, path)
         IN IF ~found.ok THEN found
            ELSE IF found.kind # "none" THEN Err("AlreadyExists")
            ELSE Ok([files EXCEPT !.dirs = @ \cup {found.path}])

\* A plausible bug: one fs::create_dir whose error is dropped.
CreateDirIgnoringErrors(files, path) ==
    LET made == Mkdir(files, path)
    IN [ok |-> TRUE, fs |-> IF made.ok THEN made.val ELSE files]

\* fs::create_dir_all: try the directory, on NotFound create the parent
\* first and try again; an existing directory is not an error.  The result
\* carries the file system, which may hold new parents even on failure.
RECURSIVE CreateDirAll(_, _)
CreateDirAll(files, path) ==
    IF path = <<>> THEN [ok |-> TRUE, fs |-> files]
    ELSE LET first == Mkdir(files, path)
         IN IF first.ok THEN [ok |-> TRUE, fs |-> first.val]
            ELSE IF first.err # "NotFound"
            THEN IF IsDir(files, path) THEN [ok |-> TRUE, fs |-> files]
                 ELSE [ok |-> FALSE, err |-> first.err, fs |-> files]
            ELSE LET parent == CreateDirAll(files, Front(path))
                 IN IF ~parent.ok THEN parent
                    ELSE LET second == Mkdir(parent.fs, path)
                         IN IF second.ok THEN [ok |-> TRUE, fs |-> second.val]
                            ELSE IF IsDir(parent.fs, path) THEN [ok |-> TRUE, fs |-> parent.fs]
                            ELSE [ok |-> FALSE, err |-> second.err, fs |-> parent.fs]

\* Path::file_name: the last component when it is a name.
FileName(path) == IF path = <<>> \/ Last(path) = ".." THEN None ELSE Some(Last(path))

\* Path::join with a file name.
Join(directory, name) == Append(directory, name)

\* The entries below `from` re-rooted at `to`.
Moved(entries, from, to) ==
    {IF IsPrefix(from, e) THEN to \o SubSeq(e, Len(from) + 1, Len(e)) ELSE e : e \in entries}

\* rename(2): the source must exist; a directory cannot go below itself,
\* onto a file or onto a directory that is not empty, a file cannot go onto
\* a directory; anything else replaces the target.  A failure changes nothing.
Rename(files, from, to) ==
    LET old == Lookup(files, <<>>, from)
        new == Lookup(files, <<>>, to)
    IN IF ~old.ok THEN old
       ELSE IF old.kind = "none" THEN Err("NotFound")
       ELSE IF ~new.ok THEN new
       ELSE IF old.path = new.path THEN Ok(files)
       ELSE IF old.kind = "dir" /\ IsPrefix(old.path, new.path) THEN Err("InvalidInput")
       ELSE IF new.kind = "dir" /\ old.kind = "file" THEN Err("IsADirectory")
       ELSE IF new.kind = "file" /\ old.kind = "dir" THEN Err("NotADirectory")
       ELSE IF new.kind = "dir"
                 /\ \E e \in files.dirs \cup files.files : e # new.path /\ IsPrefix(new.path, e)
       THEN Err("DirectoryNotEmpty")
       ELSE IF old.kind = "file"
       THEN Ok([dirs |-> files.dirs, files |-> (files.files \ {old.path}) \cup {new.path}])
       ELSE Ok([dirs |-> Moved(files.dirs \ {new.path}, old.path, new.path),
                files |-> Moved(files.files \ {new.path}, old.path, new.path)])

\* ------------------------------------------------------------ MoveFile inputs
Paths == UNION {[1..n -> Components] : n \in 0..MaxPathLen}

Tree(dirs, files) == [dirs |-> {<<>>} \cup dirs, files |-> files]

\* Initial file systems.  None of them holds the directory b/b.
FileSystems ==
    {Tree({}, {}),
     Tree({}, {<<"a">>}),
     Tree({}, {<<"a">>, <<"b">>}),
     Tree({<<"a">>}, {<<"a", "b">>}),
     Tree({<<"a">>}, {<<"b">>}),
     Tree({<<"a">>, <<"b">>}, {<<"a", "a">>, <<"b", "a">>}),
     Tree({<<"a">>, <<"a", "b">>}, {<<"b">>}),
     Tree({<<"a">>, <<"b">>, <<"b", "a">>}, {<<"a", "b">>}),
     Tree({<<"a">>, <<"b">>, <<"b", "a">>}, {<<"a", "a">>, <<"b", "a", "b">>}),
     Tree({<<"b">>, <<"b", "a">>}, {<<"a">>}),
     Tree({<<"a">>, <<"b">>}, {<<"b", "a">>}),
     Tree({<<"a">>, <<"a", "a">>}, {<<"a", "a", "a">>, <<"b">>})}

InitMove ==
    /\ ResizeIdle
    /\ CodecIdle
    /\ Base64Idle
    /\ JsonIdle
    /\ \E file \in Paths, move_to \in Paths : mvIn = [file |-> file, move_to |-> move_to]
    /\ fs \in FileSystems
    /\ mvPc = "start"
    /\ mvOut = None

MoveUnchanged ==
    UNCHANGED <<b2iIn, b2iOut, i2bIn, i2bHeaded, i2bRaw, jsonIn, jsonOut, mvIn,
                resizeVars, codecVars>>

\* fs::create_dir_all(destination_directory)?
MoveCreateDirAll ==
    /\ mvPc = "start"
    /\ LET created == CreateDirAll(fs, mvIn.move_to)
       IN /\ fs' = created.fs
          /\ IF created.ok
             THEN mvPc' = "created" /\ mvOut' = mvOut
             ELSE mvPc' = "done" /\ mvOut' = Err(created.err)
    /\ MoveUnchanged

\* source.file_name().ok_or("Source path has no filename")?
MoveFileName ==
    /\ mvPc = "created"
    /\ IF FileName(mvIn.file) = None
       THEN mvPc' = "done" /\ mvOut' = Err("Source path has no filename")
       ELSE mvPc' = "named" /\ mvOut' = mvOut
    /\ fs' = fs
    /\ MoveUnchanged

\* fs::rename(&source, &destination_file)? and the Ok(Output).
MoveRename ==
    /\ mvPc = "named"
    /\ LET destination_file == Join(mvIn.move_to, FileName(mvIn.file).some)
           renamed == Rename(fs, mvIn.file, destination_file)
       IN IF renamed.ok
          THEN fs' = renamed.val /\ mvOut' = Ok([output |-> destination_file])
          ELSE fs' = fs /\ mvOut' = Err(renamed.err)
    /\ mvPc' = "done"
    /\ MoveUnchanged

NextMove ==
    \/ MoveCreateDirAll
    \/ MoveFileName
    \/ MoveRename

SpecMove == InitMove /\ [][NextMove]_vars

\* ============================================================ claims
Returned == pc = "done"

Batch == input.image.shape[1]

Abs(x) == IF x < 0 THEN -x ELSE x

\* C1: for an image of shape (batch, H, W, C) with C in {3, 4} and positive
\* target dimensions (tw, th), execute returns an image of shape
\* (batch, th, tw, C).
C1_OutputShape ==
    (/\ Returned
     /\ Batch >= 1
     /\ input.image.shape[4] \in {3, 4}
     /\ input.width > 0
     /\ input.height > 0)
        => /\ output.ok
           /\ output.val.image.shape =
                 <<Batch, input.height, input.width, input.image.shape[4]>>

\* C2: whenever resize_parallel returns a tensor, its b-th slice is the
\* resampled b-th input element (here: has the colour of the b-th element),
\* whatever order the parallel tasks completed in; for the image and for the
\* mask.
C2_SliceOf(out, src, CHANNELS, b) ==
    LET r == Resize(TensorIndexFlat(src, b).val, CHANNELS, src.shape[3], src.shape[2],
                    input.width, input.height, ToType(input.interpolation))
        slice == TensorIndexFlat(out, b).val
    IN r.ok => /\ slice = r.val
               /\ Len(slice) = input.width * input.height * CHANNELS
               /\ \A i \in 1..Len(slice) : slice[i] = ElementColour(b)

C2_BatchOrder ==
    /\ (Returned /\ output.ok) =>
          \A b \in 0..(Batch - 1) : C2_SliceOf(output.val.image, input.image, 3, b)
    /\ (pc \in {"image", "image_par", "done"} /\ mask # None) =>
          \A b \in 0..(input.mask.shape[1] - 1) : C2_SliceOf(mask, input.mask, 1, b)

\* C2 witness: a batch of two resized to a positive size, the task of element
\* 1 having completed before the task of element 0.
C2_Witness ==
    /\ Returned
    /\ output.ok
    /\ Batch = 2
    /\ input.width > 0
    /\ input.height > 0
    /\ Len(resized) = 2
    /\ resized[1].index = 1
    /\ TensorIndexFlat(output.val.image, 0).val # TensorIndexFlat(output.val.image, 1).val

\* C3: if the extraction or resampling of any batch element (of a 3- or
\* 4-channel image) failed, the call returns an error.
C3_AnyFailureFails ==
    (/\ Returned
     /\ input.image.shape[4] \in {3, 4}
     /\ \E i \in 1..Len(resized) : resized[i].items = <<>>) => ~output.ok

\* C4: a target width or height of zero (a non-empty batch of a 3- or
\* 4-channel image) yields a ResizeError, never a successfully built tensor.
C4_ZeroTargetFails ==
    (/\ Returned
     /\ Batch >= 1
     /\ input.image.shape[4] \in {3, 4}
     /\ (input.width = 0 \/ input.height = 0))
        => /\ ~output.ok
           /\ output.err = "ResizeError"

\* C5: an image with channel count 2 (a non-empty batch, positive target
\* dimensions) yields an UnsupportedChannelsError.
C5_TwoChannelsRejected ==
    (/\ Returned
     /\ Batch >= 1
     /\ input.image.shape[4] = 2
     /\ input.width > 0
     /\ input.height > 0)
        => /\ ~output.ok
           /\ output.err = "UnsupportedChannelsError"

\* C6: with a mask of the image's batch count and positive target dimensions,
\* execute returns a mask of shape (batch, th, tw) and an image of the same
\* batch count.
C6_MaskShape ==
    (/\ Returned
     /\ input.mask # None
     /\ input.mask.shape[1] = Batch
     /\ Batch >= 1
     /\ input.image.shape[4] \in {3, 4}
     /\ input.width > 0
     /\ input.height > 0)
        => /\ output.ok
           /\ output.val.mask.shape = <<Batch, input.height, input.width>>
           /\ output.val.image.shape[1] = output.val.mask.shape[1]

\* The buffer a finished tensor_to_image call was given.
DecodeSource == IF tensorIn # None THEN tensorIn.tensor.data ELSE encoded.val.data

\* C7: every decoded byte is in 0..255 and is the integer nearest to
\* 255 * clamp(v, 0, 1); v <= 0 decodes to 0 and v >= 1 to 255.
C7_ClampAndRound ==
    (decoded # None /\ decoded.ok) =>
        /\ Len(decoded.val.pixels) = Len(DecodeSource)
        /\ \A i \in 1..Len(DecodeSource) :
              LET v == DecodeSource[i]
                  p == decoded.val.pixels[i]
                  c == IF v < 0 THEN 0 ELSE IF v > Scale THEN Scale ELSE v
              IN /\ p \in 0..255
                 /\ v <= 0 => p = 0
                 /\ v >= Scale => p = 255
                 /\ 2 * Abs(p * Scale - 255 * c) <= Scale

\* C7 witness: a decoded buffer holding -0.5 and 1.5.
C7_Witness ==
    /\ decoded # None
    /\ decoded.ok
    /\ tensorIn # None
    /\ \E i, j \in 1..Len(DecodeSource) :
          /\ DecodeSource[i] = -(Scale \div 2)
          /\ DecodeSource[j] = Scale + (Scale \div 2)
          /\ decoded.val.pixels[i] = 0
          /\ decoded.val.pixels[j] = 255

\* C8: tensor_to_image (channels 3 or 4) returns a bitmap exactly when the
\* buffer length is width * height * channels, and a ShapeError otherwise.
C8_LengthMismatchFails ==
    (tensorIn # None /\ decoded # None /\ tensorIn.channels \in {3, 4}) =>
        LET expected == tensorIn.width * tensorIn.height * tensorIn.channels
        IN /\ decoded.ok <=> Len(tensorIn.tensor.data) = expected
           /\ ~decoded.ok => decoded.err = "ShapeError"

\* C9: decoding the encoding of an 8-bit bitmap of 3 or 4 channels with the
\* bitmap's own dimensions succeeds and reproduces every pixel within 1 level.
C9_RoundTrip ==
    (bitmap # None /\ decoded # None) =>
        /\ decoded.ok
        /\ decoded.val.width = bitmap.width
        /\ decoded.val.height = bitmap.height
        /\ decoded.val.color = bitmap.color
        /\ Len(decoded.val.pixels) = Len(bitmap.pixels)
        /\ \A i \in 1..Len(bitmap.pixels) :
              Abs(decoded.val.pixels[i] - bitmap.pixels[i]) <= 1

\* C9 witness: a round trip of a 4-channel bitmap holding a level strictly
\* between 0 and 255.
C9_Witness ==
    /\ bitmap # None
    /\ decoded # None
    /\ decoded.ok
    /\ bitmap.color = "Rgba8"
    /\ \E i \in 1..Len(bitmap.pixels) : bitmap.pixels[i] \in 1..254

\* C10: image_to_tensor succeeds exactly when the channel count is 3 or 4,
\* then with shape (1, height, width, channels); otherwise it returns an
\* unsupported-channels error.
C10_EncodeShape ==
    (bitmap # None /\ encoded # None) =>
        LET channels == ChannelCount(bitmap.color)
        IN /\ encoded.ok <=> channels \in {3, 4}
           /\ encoded.ok =>
                 /\ encoded.val.shape = <<1, bitmap.height, bitmap.width, channels>>
                 /\ Len(encoded.val.data) = bitmap.height * bitmap.width * channels
           /\ ~encoded.ok => encoded.err = "UnsupportedChannelsError"

\* C10 witness: a non-square 3-channel bitmap encoded.
C10_Witness ==
    /\ bitmap # None
    /\ encoded # None
    /\ encoded.ok
    /\ bitmap.color = "Rgb8"
    /\ bitmap.width # bitmap.height

\* Whether a string holds a comma.
HasComma(str) == \E i \in 1..Len(str) : str[i] = ","

ExpectedHeader(format) ==
    CASE format = "png" ->
            <<"d", "a", "t", "a", ":", "i", "m", "a", "g", "e", "/", "p", "n", "g",
              ";", "b", "a", "s", "e", "6", "4", ",">>
      [] format = "webp" ->
            <<"d", "a", "t", "a", ":", "i", "m", "a", "g", "e", "/", "w", "e", "b", "p",
              ";", "b", "a", "s", "e", "6", "4", ",">>
      [] format = "jpeg" ->
            <<"d", "a", "t", "a", ":", "i", "m", "a", "g", "e", "/", "j", "p", "e", "g",
              ";", "b", "a", "s", "e", "6", "4", ",">>
      [] format = "gif" ->
            <<"d", "a", "t", "a", ":", "i", "m", "a", "g", "e", "/", "g", "i", "f",
              ";", "b", "a", "s", "e", "6", "4", ",">>

C13_NullOrMissingIsEmpty ==
    (jsonOut # None /\ FromStr(jsonIn.json).ok) =>
        LET found == Pointer(FromStr(jsonIn.json).val, jsonIn.path)
        IN /\ jsonOut.ok
           /\ (found = None \/ found.some.t = "null") => jsonOut.val.string = <<>>
           /\ (found # None /\ found.some.t = "str") => jsonOut.val.string = found.some.s
           /\ (found # None /\ found.some.t \notin {"null", "str"}) =>
                 /\ jsonOut.val.string = ToJsonString(found.some)
                 /\ jsonOut.val.string # <<>>
                 /\ FromStr(jsonOut.val.string) = Ok(found.some)

\* C13 witness: the pointer /b/1/1 reaches a null nested in an object and an
\* array, and the node returned the empty string.
C13_Witness ==
    /\ jsonOut # None
    /\ jsonOut.ok
    /\ jsonOut.val.string = <<>>
    /\ jsonIn.path = <<"/", "b", "/", "1", "/", "1">>
    /\ FromStr(jsonIn.json).ok
    /\ Pointer(FromStr(jsonIn.json).val, jsonIn.path) = Some([t |-> "null"])

\* Every lexical prefix of destination_directory is a directory.
DestinationExists ==
    \A k \in 1..Len(mvIn.move_to) : IsDir(fs, SubSeq(mvIn.move_to, 1, k))

\* Between create_dir_all and the end of execute the destination exists.
C14_AfterCreation == mvPc \in {"created", "named"} => DestinationExists

\* What each step of execute may do: the creation step only adds
\* directories; success comes from the rename alone, taken with the
\* destination in place, and reports destination_directory/<file name> where
\* the source entry now is; a failure after the creation changes nothing and
\* leaves the destination in place.
C14_Step ==
    /\ mvPc = "start" =>
          /\ fs'.files = fs.files
          /\ fs.dirs \subseteq fs'.dirs
          /\ mvPc' \in {"created", "done"}
          /\ mvPc' = "done" => ~mvOut'.ok
    /\ fs' # fs => mvPc \in {"start", "named"}
    /\ (mvPc \in {"created", "named"} /\ mvPc' = "done" /\ ~mvOut'.ok) =>
          /\ fs' = fs
          /\ DestinationExists'
    /\ (mvPc' = "done" /\ mvOut'.ok) =>
          /\ mvPc = "named"
          /\ DestinationExists
          /\ mvOut'.val.output = Append(mvIn.move_to, Last(mvIn.file))
          /\ LET old == Lookup(fs, <<>>, mvIn.file)
                 new == Lookup(fs, <<>>, mvOut'.val.output)
             IN /\ old.ok
                /\ new.ok
                /\ KindOf(fs, old.path) # "none"
                /\ KindOf(fs', new.path) = KindOf(fs, old.path)
                /\ old.path # new.path => KindOf(fs', old.path) = "none"

\* C14: create_dir_all (with all missing parents) runs before the rename is
\* attempted; on success the output is destination_directory/<file name of
\* source>; when execute fails after the creation (no file name, rename
\* failure) the created directory remains.
C14_CreateBeforeMove == []C14_AfterCreation /\ [][C14_Step]_vars

\* C14 witness: a/ was moved to b/b/a, and both b and b/b had to be created.
C14_Witness ==
    /\ mvPc = "done"
    /\ mvOut # None
    /\ mvOut.ok
    /\ mvIn = [file |-> <<"a">>, move_to |-> <<"b", "b">>]
    /\ mvOut.val.output = <<"b", "b", "a">>
    /\ fs = [dirs |-> {<<>>, <<"b">>, <<"b", "b">>}, files |-> {<<"b", "b", "a">>}]

====
